---- MODULE Spec2Model ----
(***************************************************************************)
(* Quiz generation and evaluation engine of studybase.                     *)
(*                                                                         *)
(*   QuizGenerationService.parseQuizResponse   (quizGenerationService.js)  *)
(*   QuizEvaluationService.evaluate*           (quizEvaluationService.js)  *)
(*   QuizPersistenceService.saveAnswer         (quizPersistenceService)    *)
(*                                                                         *)
(* A JavaScript string is a sequence of atoms.  An atom is a literal       *)
(* prefix the code tests with startsWith ("MCQ:", "Options:", ...), a      *)
(* single digit, a single ")", a single blank " ", or a word: a non-empty  *)
(* run of characters that are neither digits nor whitespace.  The regular  *)
(* expressions of the code only distinguish \d, \s, ")" and the rest, so   *)
(* they are computed on atoms exactly as on characters.                    *)
(***************************************************************************)
EXTENDS Integers, Sequences, FiniteSets, TLC

----------------------------------------------------------------------------
(* Bounds of the explored inputs *)

MaxLines == 2     \* longest free-form completion text, in lines
MaxBlocks == 3    \* most question blocks in a block-structured text
MaxMcqs == 2      \* largest totalMcqs of a configuration
MaxSaqs == 1      \* largest totalSaqs of a configuration
MaxLaqs == 1      \* largest totalLaqs of a configuration

----------------------------------------------------------------------------
(* JavaScript values *)

Digits == {"0", "1", "2", "3", "4", "5", "6", "7", "8", "9"}

IsDigit(c) == c \in Digits

IsSpace(c) == c = " "

DigitVal(c) ==
  CASE c = "0" -> 0 [] c = "1" -> 1 [] c = "2" -> 2 [] c = "3" -> 3
    [] c = "4" -> 4 [] c = "5" -> 5 [] c = "6" -> 6 [] c = "7" -> 7
    [] c = "8" -> 8 [] c = "9" -> 9

\* a JavaScript number, NaN or null
Num(n) == [kind |-> "num", val |-> n]
NaN == [kind |-> "NaN", val |-> 0]
JsNull == [kind |-> "null", val |-> 0]

\* a === b on number | NaN | null
StrictEq(a, b) ==
  \/ a.kind = "num" /\ b.kind = "num" /\ a.val = b.val
  \/ a.kind = "null" /\ b.kind = "null"

Min(S) == CHOOSE x \in S : \A y \in S : x <= y

\* String.prototype.trim
RECURSIVE trimStart(_)
trimStart(s) ==
  IF s # <<>> /\ IsSpace(Head(s)) THEN trimStart(Tail(s)) ELSE s

RECURSIVE trimEnd(_)
trimEnd(s) ==
  IF s # <<>> /\ IsSpace(s[Len(s)]) THEN trimEnd(SubSeq(s, 1, Len(s) - 1)) ELSE s

trim(s) == trimEnd(trimStart(s))

\* line.startsWith(prefix), the prefix being one atom
startsWith(line, prefix) == line # <<>> /\ Head(line) = prefix

\* line.substring(prefix.length).trim()
afterPrefix(line) == trim(Tail(line))

\* first index >= p of s that holds no digit (Len(s)+1 when there is none)
digitRunEnd(s, p) ==
  LET stops == {i \in p..Len(s) : ~IsDigit(s[i])}
  IN IF stops = {} THEN Len(s) + 1 ELSE Min(stops)

\* first index >= p of s that holds no whitespace
spaceRunEnd(s, p) ==
  LET stops == {i \in p..Len(s) : ~IsSpace(s[i])}
  IN IF stops = {} THEN Len(s) + 1 ELSE Min(stops)

\* first index >= p of s that holds a digit
nonDigitRunEnd(s, p) ==
  LET stops == {i \in p..Len(s) : IsDigit(s[i])}
  IN IF stops = {} THEN Len(s) + 1 ELSE Min(stops)

\* parseInt of a string of digits
RECURSIVE digitsToInt(_)
digitsToInt(ds) ==
  IF ds = <<>> THEN 0
  ELSE 10 * digitsToInt(SubSeq(ds, 1, Len(ds) - 1)) + DigitVal(ds[Len(ds)])

\* parseInt(s): leading whitespace skipped, an optional sign, then the
\* longest run of digits; NaN when there is no digit
parseInt(s) ==
  LET t == trimStart(s)
      signed == t # <<>> /\ Head(t) \in {"-", "+"}
      u == IF signed THEN Tail(t) ELSE t
      e == digitRunEnd(u, 1)
      n == digitsToInt(SubSeq(u, 1, e - 1))
  IN IF e = 1 THEN NaN
     ELSE IF signed /\ Head(t) = "-" THEN Num(0 - n) ELSE Num(n)

----------------------------------------------------------------------------
(* parseQuizResponse: the Options line *)

\* the lookahead (?=\s*\d+\)|$) at index e (e = Len(s)+1 is the end)
optionLookahead(s, e) ==
  \/ e = Len(s) + 1
  \/ LET d == spaceRunEnd(s, e)
         r == digitRunEnd(s, d)
     IN r > d /\ r <= Len(s) /\ s[r] = ")"

\* /(\d+)\)\s*([^0-9]+?)(?=\s*\d+\)|$)/ tried at index p: the index after
\* the match, or 0 when the pattern does not match at p.  \d+ and \s* are
\* greedy, [^0-9]+? is lazy and takes at least one character: the ends
\* after the whole whitespace run are tried shortest first, then the
\* whitespace run gives characters back one at a time.
optionMatchAt(s, p) ==
  IF ~IsDigit(s[p]) THEN 0
  ELSE
    LET dEnd == digitRunEnd(s, p)
    IN IF dEnd > Len(s) \/ s[dEnd] # ")" THEN 0
       ELSE
         LET q == dEnd + 1
             w == spaceRunEnd(s, q)
             r == nonDigitRunEnd(s, q)
             fwd == {e \in (w + 1)..r : optionLookahead(s, e)}
             back == {e \in (q + 1)..w : e <= r /\ optionLookahead(s, e)}
         IN IF fwd # {} THEN Min(fwd)
            ELSE IF back # {} THEN CHOOSE e \in back : \A x \in back : x <= e
            ELSE 0

\* optionsText.match(/.../g): the successive matches from index from on
RECURSIVE optionMatches(_, _)
optionMatches(s, from) ==
  LET starts == {p \in from..Len(s) : optionMatchAt(s, p) # 0}
  IN IF starts = {} THEN <<>>
     ELSE LET p == Min(starts)
              e == optionMatchAt(s, p)
          IN <<SubSeq(s, p, e - 1)>> \o optionMatches(s, e)

\* match.match(/(\d+)\)\s*(.+)/): <<key, text>> of the leftmost match, or
\* <<>> when there is none; the text is returned trimmed as the caller
\* trims it
optionKeyText(m) ==
  LET starts == {p \in 1..Len(m) :
                   /\ IsDigit(m[p])
                   /\ digitRunEnd(m, p) < Len(m)
                   /\ m[digitRunEnd(m, p)] = ")"}
  IN IF starts = {} THEN <<>>
     ELSE LET p == Min(starts)
              dEnd == digitRunEnd(m, p)
          IN <<SubSeq(m, p, dEnd - 1), trim(SubSeq(m, dEnd + 1, Len(m)))>>

\* options[key] = text
setOption(options, key, text) ==
  [k \in (DOMAIN options) \cup {key} |-> IF k = key THEN text ELSE options[k]]

\* optionMatches.forEach(...) over the matches ms
RECURSIVE applyOptionMatches(_, _)
applyOptionMatches(options, ms) ==
  IF ms = <<>> THEN options
  ELSE LET kt == optionKeyText(Head(ms))
           next == IF kt = <<>> THEN options ELSE setOption(options, kt[1], kt[2])
       IN applyOptionMatches(next, Tail(ms))

----------------------------------------------------------------------------
(* parseQuizResponse *)

\* marksOf with the SAQ literal copied from the MCQ object
marksOfCopied(type) ==
  CASE type = "mcq" -> 1 [] type = "saq" -> 1 [] type = "laq" -> 5

\* marks literal of the question object opened for a type
marksOf(type) ==
  CASE type = "mcq" -> 1 [] type = "saq" -> 3 [] type = "laq" -> 5

\* underCap off by one
underCapInclusive(count, cap) == count <= cap

\* the cap test of a marker line: count < config.total
underCap(count, cap) == count < cap

\* the question object a marker line opens (options is {} for an MCQ and
\* null otherwise; hasOptions tells the two apart)
newQuestion(type, number, line) ==
  [type |-> type,
   questionNumber |-> number,
   questionText |-> afterPrefix(line),
   hasOptions |-> type = "mcq",
   options |-> <<>>,
   correctAnswer |-> <<>>,
   correctOptionNumber |-> JsNull,
   explanation |-> <<>>,
   marks |-> marksOf(type)]

\* the scanner's locals before the first line
parseStart ==
  [cur |-> <<>>, questions |-> <<>>, questionNumber |-> 1,
   mcqCount |-> 0, saqCount |-> 0, laqCount |-> 0, threw |-> FALSE]

\* a marker line under its cap: push the open question, open a new one
openQuestion(st, type, line) ==
  [st EXCEPT
     !.questions = st.questions \o st.cur,
     !.cur = <<newQuestion(type, st.questionNumber, line)>>,
     !.questionNumber = st.questionNumber + 1,
     !.mcqCount = IF type = "mcq" THEN st.mcqCount + 1 ELSE st.mcqCount,
     !.saqCount = IF type = "saq" THEN st.saqCount + 1 ELSE st.saqCount,
     !.laqCount = IF type = "laq" THEN st.laqCount + 1 ELSE st.laqCount]

\* the Options branch: a match on a question whose options is null throws
optionsLine(st, line) ==
  LET q == st.cur[1]
      ms == optionMatches(afterPrefix(line), 1)
  IN IF ms = <<>> THEN st
     ELSE IF ~q.hasOptions THEN [st EXCEPT !.threw = TRUE]
     ELSE [st EXCEPT !.cur = <<[q EXCEPT !.options = applyOptionMatches(q.options, ms)]>>]

\* the Answer branch
answerLine(st, line) ==
  LET q == st.cur[1]
      answerText == afterPrefix(line)
      e == digitRunEnd(answerText, 1)
      key == SubSeq(answerText, 1, e - 1)
  IN IF q.type = "mcq" /\ e > 1
     THEN [st EXCEPT !.cur = <<[q EXCEPT
             !.correctOptionNumber = parseInt(key),
             !.correctAnswer =
               IF key \in DOMAIN q.options /\ q.options[key] # <<>>
               THEN q.options[key] ELSE answerText]>>]
     ELSE [st EXCEPT !.cur = <<[q EXCEPT !.correctAnswer = answerText]>>]

\* the Explanation branch
explanationLine(st, line) ==
  [st EXCEPT !.cur = <<[st.cur[1] EXCEPT !.explanation = afterPrefix(line)]>>]

\* one iteration of the loop over the lines
parseLine(st, line, config) ==
  IF st.threw THEN st
  ELSE IF startsWith(line, "MCQ:") /\ underCap(st.mcqCount, config.totalMcqs)
    THEN openQuestion(st, "mcq", line)
  ELSE IF startsWith(line, "SAQ:") /\ underCap(st.saqCount, config.totalSaqs)
    THEN openQuestion(st, "saq", line)
  ELSE IF startsWith(line, "LAQ:") /\ underCap(st.laqCount, config.totalLaqs)
    THEN openQuestion(st, "laq", line)
  ELSE IF st.cur # <<>>
    THEN IF startsWith(line, "Options:") THEN optionsLine(st, line)
         ELSE IF startsWith(line, "Answer:") THEN answerLine(st, line)
         ELSE IF startsWith(line, "Explanation:") THEN explanationLine(st, line)
         ELSE st
  ELSE st

\* llmResponse.split('\n').map(line => line.trim()).filter(nonempty); the
\* text is given as its sequence of lines
RECURSIVE splitLines(_)
splitLines(text) ==
  IF text = <<>> THEN <<>>
  ELSE LET l == trim(Head(text))
       IN (IF l = <<>> THEN <<>> ELSE <<l>>) \o splitLines(Tail(text))

\* the loop over the lines
RECURSIVE parseLines(_, _, _)
parseLines(st, lines, config) ==
  IF lines = <<>> THEN st
  ELSE parseLines(parseLine(st, Head(lines), config), Tail(lines), config)

\* the predicate of the validity filter
isValidQuestion(q) ==
  /\ q.questionText # <<>>
  /\ q.correctAnswer # <<>>
  /\ q.explanation # <<>>
  /\ (q.type # "mcq" \/ Cardinality(DOMAIN q.options) = 4)

RECURSIVE filterValid(_)
filterValid(qs) ==
  IF qs = <<>> THEN <<>>
  ELSE (IF isValidQuestion(Head(qs)) THEN <<Head(qs)>> ELSE <<>>)
       \o filterValid(Tail(qs))

\* parseQuizResponse(llmResponse, config); an exception yields []
parseQuizResponse(text, config) ==
  LET st == parseLines(parseStart, splitLines(text), config)
  IN IF st.threw THEN <<>>
     ELSE filterValid(st.questions \o st.cur)

----------------------------------------------------------------------------
(* QuizEvaluationService *)

\* String.prototype.toLowerCase on the words that carry capitals
toLowerCase(w) ==
  CASE w = "Paris" -> "paris"
    [] w = "Photosynthesis" -> "photosynthesis"
    [] w = "Light" -> "light"
    [] OTHER -> w

\* s.toLowerCase().split(/\s+/): the maximal runs of non-blank atoms (the
\* empty strings split also yields are dropped by the length filter)
RECURSIVE splitWords(_, _)
splitWords(s, word) ==
  IF s = <<>> THEN (IF word = <<>> THEN <<>> ELSE <<word>>)
  ELSE IF IsSpace(Head(s))
    THEN (IF word = <<>> THEN <<>> ELSE <<word>>) \o splitWords(Tail(s), <<>>)
    ELSE splitWords(Tail(s), Append(word, toLowerCase(Head(s))))

\* word.length
RECURSIVE wordLength(_)
wordLength(w) == IF w = <<>> THEN 0 ELSE Len(Head(w)) + wordLength(Tail(w))

\* .filter(word => word.length > 2)
RECURSIVE longWords(_)
longWords(ws) ==
  IF ws = <<>> THEN <<>>
  ELSE (IF wordLength(Head(ws)) > 2 THEN <<Head(ws)>> ELSE <<>>)
       \o longWords(Tail(ws))

\* userWords.filter(word => modelWords.includes(word)).length
RECURSIVE commonCount(_, _)
commonCount(userWords, modelWords) ==
  IF userWords = <<>> THEN 0
  ELSE (IF \E i \in 1..Len(modelWords) : modelWords[i] = Head(userWords)
        THEN 1 ELSE 0) + commonCount(Tail(userWords), modelWords)

\* Max taking the smaller of the two lengths
MaxAsMin(a, b) == IF a <= b THEN a ELSE b

Max(a, b) == IF a >= b THEN a ELSE b

\* Math.round((c / m) * 100): NaN for 0/0, else the nearest integer, a
\* half rounded up
roundPercent(c, m) ==
  IF m = 0 THEN NaN ELSE Num((200 * c + m) \div (2 * m))

\* scoreAtLeast with a strict comparison
scoreAbove(score, threshold) == score.kind = "num" /\ score.val > threshold

\* score >= threshold; false when the score is NaN
scoreAtLeast(score, threshold) == score.kind = "num" /\ score.val >= threshold

calculateBasicSimilarity(userAnswer, modelAnswer, threshold) ==
  LET userWords == longWords(splitWords(userAnswer, <<>>))
      modelWords == longWords(splitWords(modelAnswer, <<>>))
      similarityScore ==
        roundPercent(commonCount(userWords, modelWords),
                     Max(Len(userWords), Len(modelWords)))
  IN [isCorrect |-> scoreAtLeast(similarityScore, threshold),
      similarityScore |-> similarityScore]

\* line.match(/Similarity Score:\s*(\d+)/) on a line that starts with the
\* prefix: the digits matched, <<>> when there is no match
scoreMatch(line) ==
  LET rest == Tail(line)
      d == spaceRunEnd(rest, 1)
      e == digitRunEnd(rest, d)
  IN SubSeq(rest, d, e - 1)

\* line.match(/Is Correct:\s*(YES|NO)/i) on a line that starts with the
\* prefix: the captured group in upper case, "" when there is no match
correctMatch(line) ==
  LET rest == Tail(line)
      d == spaceRunEnd(rest, 1)
  IN IF d > Len(rest) THEN ""
     ELSE IF rest[d] \in {"YES", "yes", "Yes", "YES."} THEN "YES"
     ELSE IF rest[d] \in {"NO", "no", "No", "NOT"} THEN "NO"
     ELSE ""

\* the loop of parseSimilarityResponse over the trimmed lines
RECURSIVE scanSimilarity(_, _)
scanSimilarity(acc, lines) ==
  IF lines = <<>> THEN acc
  ELSE
    LET line == trim(Head(lines))
        next ==
          IF startsWith(line, "Similarity Score:")
          THEN IF scoreMatch(line) # <<>>
               THEN [acc EXCEPT !.similarityScore = parseInt(scoreMatch(line))]
               ELSE acc
          ELSE IF startsWith(line, "Is Correct:")
          THEN IF correctMatch(line) # ""
               THEN [acc EXCEPT !.isCorrect = (correctMatch(line) = "YES")]
               ELSE acc
          ELSE acc
    IN scanSimilarity(next, Tail(lines))

parseSimilarityResponse(reply, threshold) ==
  LET r == scanSimilarity([isCorrect |-> FALSE, similarityScore |-> Num(0)], reply)
  IN IF r.similarityScore.val > 0 /\ ~r.isCorrect
     THEN [r EXCEPT !.isCorrect = r.similarityScore.val >= threshold]
     ELSE r

\* calculateSimilarityWithLLM: every failure of the call falls back to the
\* lexical overlap; a reply that arrived is parsed
calculateSimilarityWithLLM(userAnswer, modelAnswer, threshold, key, reply) ==
  IF key /\ reply.kind = "ok"
  THEN parseSimilarityResponse(reply.content, threshold)
  ELSE calculateBasicSimilarity(userAnswer, modelAnswer, threshold)

\* the number of requests calculateSimilarityWithLLM sends
fetchCount(key) == IF key THEN 1 ELSE 0

\* evaluateMCQ comparing the answer text with the number, without parseInt
evaluateMCQText(answer, correctOptionNumber) ==
  LET isCorrect == /\ correctOptionNumber.kind = "num"
                   /\ answer = <<CHOOSE c \in Digits :
                                   DigitVal(c) = correctOptionNumber.val % 10>>
  IN [isCorrect |-> isCorrect,
      marksObtained |-> IF isCorrect THEN 1 ELSE 0,
      similarityScore |-> IF isCorrect THEN Num(100) ELSE Num(0)]

evaluateMCQ(answer, correctOptionNumber) ==
  LET isCorrect == StrictEq(parseInt(answer), correctOptionNumber)
  IN [isCorrect |-> isCorrect,
      marksObtained |-> IF isCorrect THEN 1 ELSE 0,
      similarityScore |-> IF isCorrect THEN Num(100) ELSE Num(0)]

evaluateSAQ(answer, modelAnswer, key, reply) ==
  LET r == calculateSimilarityWithLLM(answer, modelAnswer, 90, key, reply)
  IN [isCorrect |-> r.isCorrect,
      marksObtained |-> IF r.isCorrect THEN 3 ELSE 0,
      similarityScore |-> r.similarityScore]

\* evaluateLAQ awarding the marks of an SAQ
evaluateLAQThree(answer, modelAnswer, key, reply) ==
  LET r == calculateSimilarityWithLLM(answer, modelAnswer, 75, key, reply)
  IN [isCorrect |-> r.isCorrect,
      marksObtained |-> IF r.isCorrect THEN 3 ELSE 0,
      similarityScore |-> r.similarityScore]

evaluateLAQ(answer, modelAnswer, key, reply) ==
  LET r == calculateSimilarityWithLLM(answer, modelAnswer, 75, key, reply)
  IN [isCorrect |-> r.isCorrect,
      marksObtained |-> IF r.isCorrect THEN 5 ELSE 0,
      similarityScore |-> r.similarityScore]

\* evaluateAnswer; an unknown type throws and the catch returns zeros
evaluateAnswer(type, answer, data, key, reply) ==
  CASE type = "mcq" -> evaluateMCQ(answer, data.correctOptionNumber)
    [] type = "saq" -> evaluateSAQ(answer, data.correctAnswer, key, reply)
    [] type = "laq" -> evaluateLAQ(answer, data.correctAnswer, key, reply)
    [] OTHER -> [isCorrect |-> FALSE, marksObtained |-> 0, similarityScore |-> Num(0)]

\* requests evaluateAnswer sends to the completion service
evaluateFetches(type, key) ==
  IF type \in {"saq", "laq"} THEN fetchCount(key) ELSE 0

----------------------------------------------------------------------------
(* Completion texts given to the parser *)

LnMcq == <<"MCQ:", " ", "Capital", " ", "of", " ", "France?">>
LnMcqSum == <<"MCQ:", " ", "2", "+", "2", "?">>
LnSaq == <<"SAQ:", " ", "Define", " ", "osmosis">>
LnLaq == <<"LAQ:", " ", "Explain", " ", "photosynthesis">>
LnOptions ==
  <<"Options:", " ", "1", ")", " ", "Rome", " ", "2", ")", " ", "Paris", " ",
    "3", ")", " ", "Oslo", " ", "4", ")", " ", "Bern">>
LnOptionsDigits ==
  <<"Options:", " ", "1", ")", " ", "3", " ", "2", ")", " ", "4", " ",
    "3", ")", " ", "5", " ", "4", ")", " ", "6">>
LnOptionsKeys ==
  <<"Options:", " ", "1", ")", " ", "Rome", " ", "2", ")", " ", "Paris", " ",
    "3", ")", " ", "Oslo", " ", "5", ")", " ", "Bern">>
LnAnswer2 == <<"Answer:", " ", "2">>
LnAnswer7 == <<"Answer:", " ", "7">>
LnAnswerText == <<"Answer:", " ", "Paris">>
LnExplanation == <<"Explanation:", " ", "basic", " ", "addition">>
LnLaqPadded == <<" ", "LAQ:", " ", "Explain", " ", "photosynthesis", " ">>
LnBlank == <<" ">>

RawLines ==
  {LnMcq, LnSaq, LnLaq, LnLaqPadded, LnOptions, LnOptionsDigits, LnOptionsKeys,
   LnAnswer2, LnAnswer7, LnAnswerText, LnExplanation, LnBlank}

\* question blocks, as the completion service may emit them
BlkMcq == <<LnMcq, LnOptions, LnAnswer2, LnExplanation>>
BlkMcqSum == <<LnMcqSum, LnOptionsDigits, LnAnswer2, LnExplanation>>
BlkMcqAnswerFirst == <<LnMcq, LnAnswer2, LnOptions, LnExplanation>>
BlkMcqAnswer7 == <<LnMcq, LnOptions, LnAnswer7, LnExplanation>>
BlkMcqAnswerText == <<LnMcq, LnOptions, LnAnswerText, LnExplanation>>
BlkMcqKeys == <<LnMcq, LnOptionsKeys, LnAnswer2, LnExplanation>>
BlkSaq == <<LnSaq, LnAnswerText, LnExplanation>>
BlkLaq == <<LnLaq, LnAnswerText, LnExplanation>>
BlkLaqPadded == <<LnBlank, LnLaqPadded, LnAnswerText, LnBlank, LnExplanation>>
BlkSaqNoExplanation == <<LnSaq, LnAnswerText>>
BlkSaqOptions == <<LnSaq, LnOptions, LnAnswerText, LnExplanation>>

\* the blocks that texts of several blocks are made of
Blocks ==
  {BlkMcq, BlkMcqSum, BlkMcqAnswerFirst, BlkSaq, BlkLaq, BlkSaqNoExplanation,
   BlkSaqOptions}

\* further texts of one block
VariantTexts == {BlkMcqAnswer7, BlkMcqAnswerText, BlkMcqKeys, BlkLaqPadded}

\* the blocks that follow the generation grammar of the prompt
GrammarBlocks == {BlkMcq, BlkMcqSum, BlkSaq, BlkLaq}

SeqsUpTo(S, n) == UNION {[1..k -> S] : k \in 0..n}

RECURSIVE Flatten(_)
Flatten(bs) == IF bs = <<>> THEN <<>> ELSE Head(bs) \o Flatten(Tail(bs))

FreeTexts == SeqsUpTo(RawLines, MaxLines)

BlockTexts == {Flatten(bs) : bs \in SeqsUpTo(Blocks, MaxBlocks)}

InputTexts == FreeTexts \cup BlockTexts \cup VariantTexts

Configs == [totalMcqs : 0..MaxMcqs, totalSaqs : 0..MaxSaqs, totalLaqs : 0..MaxLaqs]

----------------------------------------------------------------------------
(* Answers, questions and completion replies given to the evaluator *)

UaTwo == <<"2">>
UaThree == <<"3">>
UaSecond == <<" ", "2", "nd">>
UaParis == <<"Paris">>
UaBlank == <<" ">>
UaShort == <<"to", " ", "it">>
UaPhoto ==
  <<"photosynthesis", " ", "converts", " ", "light", " ", "to", " ", "energy">>
UaPhotoCaps == <<"Photosynthesis", " ", "converts", " ", "Light">>
UaNine ==
  <<"energy", " ", "energy", " ", "energy", " ", "energy", " ", "energy", " ",
    "energy", " ", "energy", " ", "energy", " ", "energy">>

UserAnswers ==
  {<<>>, UaTwo, UaThree, UaSecond, UaParis, UaBlank, UaShort, UaPhoto,
   UaPhotoCaps, UaNine}

MaParis == <<"Paris">>
MaShort == <<"pi">>
MaPhoto ==
  <<"photosynthesis", " ", "converts", " ", "light", " ", "energy", " ",
    "into", " ", "chemical", " ", "energy">>
MaPhotoFour ==
  <<"photosynthesis", " ", "converts", " ", "light", " ", "energy">>
MaTen == UaNine \o <<" ", "energy">>

ModelAnswers == {MaParis, MaShort, MaPhoto, MaPhotoFour, MaTen}

\* quiz_questions rows (type, correct_answer, correct_option_number) and,
\* for batchEvaluateAnswers, a question of a type the service does not know
DbTypes == {"mcq", "saq", "laq"}

Questions ==
  {[id |-> "q1", type |-> "mcq", correctAnswer |-> MaParis, correctOptionNumber |-> n] :
     n \in {Num(2), JsNull}}
  \cup {[id |-> "q1", type |-> t, correctAnswer |-> a, correctOptionNumber |-> JsNull] :
          t \in {"saq", "laq"}, a \in ModelAnswers}
  \cup {[id |-> "q1", type |-> "essay", correctAnswer |-> MaPhoto,
          correctOptionNumber |-> JsNull]}

ScoreTexts ==
  {<<"0">>, <<"7", "4">>, <<"7", "5">>, <<"8", "9">>, <<"9", "0">>,
   <<"1", "0", "0">>, <<"1", "5", "0">>, <<"high">>}

ScoreLines == {<<>>} \cup {<<<<"Similarity Score:", " ">> \o t>> : t \in ScoreTexts}

VerdictLines ==
  {<<>>} \cup {<<<<" ", "Is Correct:", " ", v>>>> : v \in {"YES", "NO", "yes", "maybe"}}

LnJudgeExplanation == <<"Explanation:", " ", "close", " ", "enough">>

\* the reply texts, as lines: an optional score line, the explanation,
\* an optional verdict line
ReplyTexts == {sl \o <<LnJudgeExplanation>> \o vl : sl \in ScoreLines, vl \in VerdictLines}

\* what the request to the completion service comes to: fetch rejects, a
\* non-OK status, an error field in the body, a body without choices, or a
\* reply text
Completions ==
  {[kind |-> k, content |-> <<>>] : k \in {"network", "status", "errorbody", "nochoices"}}
  \cup {[kind |-> "ok", content |-> r] : r \in ReplyTexts}

NoEvaluation == [isCorrect |-> FALSE, marksObtained |-> 0, similarityScore |-> Num(0)]

----------------------------------------------------------------------------
(* State *)

VARIABLES
  llmResponse,     \* parseQuizResponse: the completion text, as lines
  config,          \* parseQuizResponse: the quiz configuration
  parsePc,         \* "call" before parseQuizResponse has run, "done" after
  validQuestions,  \* the array parseQuizResponse returned
  apiKey,          \* QuizEvaluationService.apiKey is set
  question,        \* the question being answered
  userAnswer,      \* the learner's answer
  completion,      \* what the completion service does with a request
  evalPc,          \* position of the answer submission
  evaluation,      \* the result of evaluateAnswer
  fetches,         \* requests sent to the completion service
  quiz_answers     \* rows of the quiz_answers table

parseVars == <<llmResponse, config, parsePc, validQuestions>>

evalVars ==
  <<apiKey, question, userAnswer, completion, evalPc, evaluation, fetches,
    quiz_answers>>

VARIABLES
  quizConfig,      \* QuizGeneration: the configuration form
  selectedFiles,   \* QuizGeneration: number of files selected
  validation,      \* the result of validateQuizConfig
  genPc,           \* position of handleGenerateQuiz
  genError,        \* QuizGeneration: the error shown
  quizzes,         \* rows of the quizzes table
  quiz_questions,  \* rows of the quiz_questions table
  session          \* the QuizTaking pages open on the quiz

lifeVars ==
  <<quizConfig, selectedFiles, validation, genPc, genError, quizzes,
    quiz_questions, session>>

vars == <<parseVars, evalVars, lifeVars>>

\* the browser tabs that can show the quiz
Sessions == {"tabA", "tabB"}

\* a QuizTaking page that is not mounted
ClosedSession ==
  [pc |-> "closed",
   quiz |-> <<>>,
   currentQuestionIndex |-> 0,
   answeredQuestions |-> {},
   pending |-> <<>>,
   totalMarksObtained |-> 0]

NoValidation == [valid |-> FALSE, error |-> ""]

\* the quiz pages at rest: no generation started, nothing stored
LifeIdle ==
  /\ quizConfig = [quizName |-> <<>>, difficulty |-> "", totalMcqs |-> 0,
                   totalSaqs |-> 0, totalLaqs |-> 0]
  /\ selectedFiles = 0
  /\ validation = NoValidation
  /\ genPc = "idle"
  /\ genError = ""
  /\ quizzes = <<>>
  /\ quiz_questions = <<>>
  /\ session = [s \in Sessions |-> ClosedSession]

\* the evaluator at rest
EvalIdle ==
  /\ apiKey = TRUE
  /\ question = [id |-> "q1", type |-> "mcq", correctAnswer |-> MaParis,
                 correctOptionNumber |-> Num(2)]
  /\ userAnswer = <<>>
  /\ completion = [kind |-> "network", content |-> <<>>]
  /\ evalPc = "idle"
  /\ evaluation = NoEvaluation
  /\ fetches = 0
  /\ quiz_answers = {}

\* the parser at rest
ParseIdle ==
  /\ llmResponse = <<>>
  /\ config = [totalMcqs |-> 0, totalSaqs |-> 0, totalLaqs |-> 0]
  /\ parsePc = "idle"
  /\ validQuestions = <<>>

InitParse ==
  /\ llmResponse \in InputTexts
  /\ config \in Configs
  /\ parsePc = "call"
  /\ validQuestions = <<>>
  /\ EvalIdle
  /\ LifeIdle

\* generateQuiz line 58: this.parseQuizResponse(llmResponse.response, quizConfig)
Parse ==
  /\ parsePc = "call"
  /\ validQuestions' = parseQuizResponse(llmResponse, config)
  /\ parsePc' = "done"
  /\ UNCHANGED <<llmResponse, config, evalVars, lifeVars>>

NextParse == Parse

SpecParse == InitParse /\ [][NextParse]_vars

----------------------------------------------------------------------------
(* Answer submission *)

InitEval ==
  /\ ParseIdle
  /\ apiKey \in BOOLEAN
  /\ question \in Questions
  /\ userAnswer \in UserAnswers
  /\ completion \in Completions
  /\ evalPc = "call"
  /\ evaluation = NoEvaluation
  /\ fetches = 0
  /\ quiz_answers = {}
  /\ LifeIdle

\* handleSubmitAnswer: a blank answer is refused before anything is evaluated
RejectBlankAnswer ==
  /\ evalPc = "call"
  /\ question.type \in DbTypes
  /\ trim(userAnswer) = <<>>
  /\ evalPc' = "refused"
  /\ UNCHANGED <<parseVars, lifeVars, apiKey, question, userAnswer, completion,
                 evaluation, fetches, quiz_answers>>

\* handleSubmitAnswer up to the result of evaluateAnswer
EvaluateSubmitted ==
  /\ evalPc = "call"
  /\ question.type \in DbTypes
  /\ trim(userAnswer) # <<>>
  /\ evaluation' = evaluateAnswer(question.type, userAnswer, question, apiKey, completion)
  /\ fetches' = fetches + evaluateFetches(question.type, apiKey)
  /\ evalPc' = "evaluated"
  /\ UNCHANGED <<parseVars, lifeVars, apiKey, question, userAnswer, completion, quiz_answers>>

\* the row saveAnswer inserts; the request body is JSON, where NaN is null
answerRow(q, answer, ev) ==
  [question_id |-> q.id,
   user_answer |-> answer,
   is_correct |-> ev.isCorrect,
   marks_obtained |-> ev.marksObtained,
   similarity_score |->
     IF ev.similarityScore.kind = "num" THEN ev.similarityScore ELSE JsNull]

\* the quiz the pages are about
QuizId == "quiz1"

\* the insert of saveAnswer: the table gives every row an id of its own and
\* has no constraint on (quiz_id, question_id)
insertAnswer(rows, quizId, r) ==
  rows \cup {[id |-> Cardinality(rows) + 1,
              quiz_id |-> quizId,
              question_id |-> r.question_id,
              user_answer |-> r.user_answer,
              is_correct |-> r.is_correct,
              marks_obtained |-> r.marks_obtained,
              similarity_score |-> r.similarity_score]}

\* handleSubmitAnswer: saveAnswer inserts the row
SaveAnswer ==
  /\ evalPc = "evaluated"
  /\ quiz_answers' =
       insertAnswer(quiz_answers, QuizId, answerRow(question, userAnswer, evaluation))
  /\ evalPc' = "saved"
  /\ UNCHANGED <<parseVars, lifeVars, apiKey, question, userAnswer, completion,
                 evaluation, fetches>>

\* handleSubmitAnswer: the insert is rejected and the handler reports it
SaveAnswerFails ==
  /\ evalPc = "evaluated"
  /\ evalPc' = "failed"
  /\ UNCHANGED <<parseVars, lifeVars, apiKey, question, userAnswer, completion,
                 evaluation, fetches, quiz_answers>>

\* batchEvaluateAnswers on one answer: evaluateAnswer on any type and any
\* answer, nothing saved
BatchEvaluate ==
  /\ evalPc = "call"
  /\ evaluation' = evaluateAnswer(question.type, userAnswer, question, apiKey, completion)
  /\ fetches' = fetches + evaluateFetches(question.type, apiKey)
  /\ evalPc' = "batch"
  /\ UNCHANGED <<parseVars, lifeVars, apiKey, question, userAnswer, completion, quiz_answers>>

NextEval ==
  \/ RejectBlankAnswer
  \/ EvaluateSubmitted
  \/ SaveAnswer
  \/ SaveAnswerFails
  \/ BatchEvaluate

SpecEval == InitEval /\ [][NextEval]_vars

----------------------------------------------------------------------------
(* Quiz configuration *)

\* !count || count < 0 || count > 20 of validateQuizConfig
countRejected(count) == count = 0 \/ count < 0 \/ count > 20

validateQuizConfig(c) ==
  LET totalQuestions == c.totalMcqs + c.totalSaqs + c.totalLaqs
  IN IF c.quizName = <<>> \/ trim(c.quizName) = <<>>
     THEN [valid |-> FALSE, error |-> "Quiz name is required"]
     ELSE IF c.difficulty \notin {"easy", "medium", "hard"}
     THEN [valid |-> FALSE, error |-> "Please select a valid difficulty level"]
     ELSE IF countRejected(c.totalMcqs)
     THEN [valid |-> FALSE, error |-> "MCQ count must be between 0 and 20"]
     ELSE IF countRejected(c.totalSaqs)
     THEN [valid |-> FALSE, error |-> "SAQ count must be between 0 and 20"]
     ELSE IF countRejected(c.totalLaqs)
     THEN [valid |-> FALSE, error |-> "LAQ count must be between 0 and 20"]
     ELSE IF totalQuestions = 0
     THEN [valid |-> FALSE, error |-> "At least one question type must be selected"]
     ELSE IF totalQuestions > 30
     THEN [valid |-> FALSE, error |-> "Total questions cannot exceed 30"]
     ELSE [valid |-> TRUE, error |-> ""]

\* what the form can hold: a name, a difficulty and three integer counts
QuizNames == {<<>>, <<" ">>, <<"Biology">>}

Difficulties == {"", "easy", "medium", "hard", "expert"}

CountValues == {-1, 0, 1, 2, 10, 20, 21}

QuizConfigs ==
  [quizName : QuizNames, difficulty : Difficulties, totalMcqs : CountValues,
   totalSaqs : CountValues, totalLaqs : CountValues]

\* handleGenerateQuiz: validateConfig, which returns before anything is
\* generated when the configuration is refused or no file is selected
ValidateConfig ==
  /\ genPc = "validate"
  /\ validation' = validateQuizConfig(quizConfig)
  /\ IF ~validation'.valid
     THEN genError' = validation'.error /\ genPc' = "rejected"
     ELSE IF selectedFiles = 0
     THEN /\ genError' = "Please select at least one file to generate questions from."
          /\ genPc' = "rejected"
     ELSE genError' = "" /\ genPc' = "generate"
  /\ UNCHANGED <<parseVars, evalVars, quizConfig, selectedFiles, quizzes,
                 quiz_questions, session>>

InitValidate ==
  /\ ParseIdle
  /\ EvalIdle
  /\ quizConfig \in QuizConfigs
  /\ selectedFiles \in {0, 1}
  /\ validation = NoValidation
  /\ genPc = "validate"
  /\ genError = ""
  /\ quizzes = <<>>
  /\ quiz_questions = <<>>
  /\ session = [s \in Sessions |-> ClosedSession]

NextValidate == ValidateConfig

SpecValidate == InitValidate /\ [][NextValidate]_vars

----------------------------------------------------------------------------
(* Quiz generation: handleGenerateQuiz, generateQuiz, createQuiz *)

\* callLLM of the generation service: one request, every failure caught
callLLM(key, call) ==
  IF ~key
  THEN [success |-> FALSE, response |-> <<>>, error |-> "Hugging Face API key not found"]
  ELSE IF call.kind = "network"
  THEN [success |-> FALSE, response |-> <<>>, error |-> "Failed to fetch"]
  ELSE IF call.kind = "status"
  THEN [success |-> FALSE, response |-> <<>>, error |-> "API request failed"]
  ELSE IF call.kind = "errorbody"
  THEN [success |-> FALSE, response |-> <<>>, error |-> "API error"]
  ELSE IF call.kind = "nochoices"
  THEN [success |-> FALSE, response |-> <<>>, error |-> "Cannot read properties of undefined"]
  ELSE [success |-> TRUE, response |-> call.content, error |-> ""]

\* callLLMFetches with a second attempt after the first
callLLMRetries(key) == IF key THEN 2 ELSE 0

\* the requests callLLM sends: the one fetch, not reached without a key
callLLMFetches(key) == IF key THEN 1 ELSE 0

\* the errors callLLM returns
CompletionErrors ==
  {"Hugging Face API key not found", "Failed to fetch", "API request failed",
   "API error", "Cannot read properties of undefined"}

\* generateQuiz once the completion arrived: no question parsed is a failure
parsedQuestions(questions) ==
  IF questions = <<>>
  THEN [success |-> FALSE, questions |-> <<>>,
        error |-> "Failed to parse questions from LLM response."]
  ELSE [success |-> TRUE, questions |-> questions, error |-> ""]

\* generateQuiz going on to createQuiz after a failed completion call
generateQuizUnchecked(hasContext, key, call, quizCfg) ==
  IF ~hasContext
  THEN [success |-> FALSE, questions |-> <<>>,
        error |-> "No text content found in selected files."]
  ELSE IF ~callLLM(key, call).success
  THEN [success |-> TRUE, questions |-> <<>>, error |-> ""]
  ELSE parsedQuestions(parseQuizResponse(callLLM(key, call).response, quizCfg))

\* generateQuiz: the text of the files, the completion, the parser
generateQuiz(hasContext, key, call, quizCfg) ==
  IF ~hasContext
  THEN [success |-> FALSE, questions |-> <<>>,
        error |-> "No text content found in selected files."]
  ELSE IF ~callLLM(key, call).success
  THEN [success |-> FALSE, questions |-> <<>>, error |-> callLLM(key, call).error]
  ELSE parsedQuestions(parseQuizResponse(callLLM(key, call).response, quizCfg))

\* the trigger calculate_quiz_marks, before every insert and update
calculate_quiz_total_marks(row) ==
  [row EXCEPT !.total_marks =
     (row.total_mcqs * 1) + (row.total_saqs * 3) + (row.total_laqs * 5)]

\* the row createQuiz inserts into quizzes, with the defaults of the table
quizRow(quizData) ==
  calculate_quiz_total_marks(
    [id |-> QuizId,
     total_mcqs |-> quizData.totalMcqs,
     total_saqs |-> quizData.totalSaqs,
     total_laqs |-> quizData.totalLaqs,
     total_marks |-> 0,
     marks_obtained |-> 0,
     percentage |-> 0,
     status |-> "ready"])

\* the ids the store gives to the question rows, by position
QuestionIds == <<"q1", "q2", "q3", "q4">>

\* a number in a JSON request body: NaN is sent as null
jsonNumber(n) == IF n.kind = "num" THEN n ELSE JsNull

\* the rows createQuiz inserts into quiz_questions
questionRecords(questions) ==
  [i \in 1..Len(questions) |->
     [id |-> QuestionIds[i],
      quiz_id |-> QuizId,
      question_type |-> questions[i].type,
      question_number |-> questions[i].questionNumber,
      correct_answer |-> questions[i].correctAnswer,
      correct_option_number |-> jsonNumber(questions[i].correctOptionNumber),
      marks |-> questions[i].marks]]

\* the configurations a generation is started with
EasyConfig ==
  [quizName |-> <<"Biology">>, difficulty |-> "easy", totalMcqs |-> 1,
   totalSaqs |-> 1, totalLaqs |-> 1]

McqOnlyConfig == [EasyConfig EXCEPT !.totalSaqs = 0, !.totalLaqs = 0]

LifeConfigs == {EasyConfig, McqOnlyConfig}

\* the completion texts of a generation: two of the three questions asked
\* for, a first question without explanation, nothing to parse
GenShort == BlkMcq \o BlkSaq
GenGap == BlkSaqNoExplanation \o BlkMcq
GenNone == <<LnBlank>>

\* one long-answer question of the three questions asked for
GenLaq == BlkLaq

GenTexts == {GenShort, GenGap, GenNone, GenLaq}

GenCompletions ==
  {[kind |-> k, content |-> <<>>] : k \in {"network", "status", "errorbody", "nochoices"}}
  \cup {[kind |-> "ok", content |-> t] : t \in GenTexts}

\* generateQuiz returned before callLLM: nothing asked of the service
NoRequest == [kind |-> "none", content |-> <<>>]

\* handleGenerateQuiz: generateQuiz; a failure is thrown and shown
GenerateQuestions ==
  /\ genPc = "generate"
  /\ \E hasContext \in BOOLEAN, call \in GenCompletions :
       \E r \in {generateQuiz(hasContext, apiKey, call, quizConfig)} :
          /\ completion' = IF hasContext THEN call ELSE NoRequest
          /\ llmResponse' = IF hasContext THEN callLLM(apiKey, call).response ELSE <<>>
          /\ validQuestions' = r.questions
          /\ fetches' = fetches + (IF hasContext THEN callLLMFetches(apiKey) ELSE 0)
          /\ genError' = r.error
          /\ genPc' = IF r.success THEN "insertQuiz" ELSE "failed"
  /\ parsePc' = "done"
  /\ UNCHANGED <<config, apiKey, question, userAnswer, evalPc, evaluation,
                 quiz_answers, quizConfig, selectedFiles, validation, quizzes,
                 quiz_questions, session>>

\* createQuiz: the quiz row is inserted, already with status 'ready'
CreateQuizInsertQuiz ==
  /\ genPc = "insertQuiz"
  /\ quizzes' = Append(quizzes, quizRow(quizConfig))
  /\ genPc' = "insertQuestions"
  /\ UNCHANGED <<parseVars, evalVars, quizConfig, selectedFiles, validation,
                 genError, quiz_questions, session>>

\* createQuiz: the insert of the quiz row is refused
CreateQuizInsertQuizFails ==
  /\ genPc = "insertQuiz"
  /\ genError' = "quizzes insert failed"
  /\ genPc' = "failed"
  /\ UNCHANGED <<parseVars, evalVars, quizConfig, selectedFiles, validation,
                 quizzes, quiz_questions, session>>

\* createQuiz: the question rows are inserted; handleGenerateQuiz reports
\* success and navigates to the quiz
CreateQuizInsertQuestions ==
  /\ genPc = "insertQuestions"
  /\ quiz_questions' = questionRecords(validQuestions)
  /\ genPc' = "done"
  /\ UNCHANGED <<parseVars, evalVars, quizConfig, selectedFiles, validation,
                 genError, quizzes, session>>

\* createQuiz: the insert of the question rows is refused; the quiz row
\* stays as it was inserted
CreateQuizInsertQuestionsFails ==
  /\ genPc = "insertQuestions"
  /\ genError' = "quiz_questions insert failed"
  /\ genPc' = "failed"
  /\ UNCHANGED <<parseVars, evalVars, quizConfig, selectedFiles, validation,
                 quizzes, quiz_questions, session>>

----------------------------------------------------------------------------
(* Taking the quiz: loadQuiz, handleSubmitAnswer, handleSubmitTest *)

\* rows the store may hold in quiz_answers
MaxAnswers == 2

\* the answers typed into the page and what the completion service does
\* with the similarity request of a submission
TakeAnswers == {UaTwo, UaParis}

TakeCompletions == {[kind |-> "network", content |-> <<>>]}

\* updateQuizProgress: the update of the quiz row, then the trigger
updateQuizProgress(row, updateData) ==
  calculate_quiz_total_marks(
    [f \in DOMAIN row |->
       IF f \in DOMAIN updateData THEN updateData[f] ELSE row[f]])

\* the answer rows of a quiz
answersOf(rows, quizId) == {r \in rows : r.quiz_id = quizId}

\* savedAnswers.reduce((sum, answer) => sum + (answer.marks_obtained || 0), 0)
RECURSIVE sumMarks(_)
sumMarks(rows) ==
  IF rows = {} THEN 0
  ELSE LET r == CHOOSE x \in rows : TRUE
       IN r.marks_obtained + sumMarks(rows \ {r})

\* the percentage rounded down
percentageFloor(totalMarksObtained, total_marks) ==
  (100 * totalMarksObtained) \div total_marks

\* Math.round((totalMarksObtained / quiz.total_marks) * 100); total_marks
\* of a quiz made from a validated configuration is at least 3
percentageOf(totalMarksObtained, total_marks) ==
  roundPercent(totalMarksObtained, total_marks).val

\* the page of a session shows the quiz with its buttons
PageReady(s) ==
  /\ session[s].pc = "idle"
  /\ session[s].quiz # <<>>
  /\ session[s].quiz[1].questions # <<>>

\* quiz.questions[currentQuestionIndex]
currentQuestion(s) ==
  session[s].quiz[1].questions[session[s].currentQuestionIndex + 1]

isLastQuestion(s) ==
  session[s].currentQuestionIndex = Len(session[s].quiz[1].questions) - 1

\* the page is mounted (or reloaded) and loadQuiz starts
OpenQuiz(s) ==
  /\ genPc \in {"done", "failed"}
  /\ quizzes # <<>>
  /\ session[s].pc \in {"closed", "idle", "results"}
  /\ session' = [session EXCEPT ![s] = [ClosedSession EXCEPT !.pc = "getQuiz"]]
  /\ UNCHANGED <<parseVars, evalVars, quizConfig, selectedFiles, validation,
                 genPc, genError, quizzes, quiz_questions>>

\* loadQuiz: getQuiz returns the quiz row and its questions
LoadQuizGetQuiz(s) ==
  /\ session[s].pc = "getQuiz"
  /\ session' =
       [session EXCEPT
          ![s].quiz = <<[status |-> quizzes[1].status,
                         total_marks |-> quizzes[1].total_marks,
                         questions |-> quiz_questions]>>,
          ![s].pc = "getAnswered"]
  /\ UNCHANGED <<parseVars, evalVars, quizConfig, selectedFiles, validation,
                 genPc, genError, quizzes, quiz_questions>>

\* loadQuiz: getQuiz fails and the page shows no quiz
LoadQuizGetQuizFails(s) ==
  /\ session[s].pc = "getQuiz"
  /\ session' = [session EXCEPT ![s].pc = "idle"]
  /\ UNCHANGED <<parseVars, evalVars, quizConfig, selectedFiles, validation,
                 genPc, genError, quizzes, quiz_questions>>

\* loadQuiz: getAnsweredQuestions (a failure leaves the set empty); the
\* status read by getQuiz decides whether the update follows
LoadQuizGetAnswered(s) ==
  /\ session[s].pc = "getAnswered"
  /\ \E ok \in BOOLEAN :
       session' =
         [session EXCEPT
            ![s].answeredQuestions =
               IF ok THEN {r.question_id : r \in answersOf(quiz_answers, QuizId)}
               ELSE {},
            ![s].pc = IF session[s].quiz[1].status = "ready" THEN "update" ELSE "idle"]
  /\ UNCHANGED <<parseVars, evalVars, quizConfig, selectedFiles, validation,
                 genPc, genError, quizzes, quiz_questions>>

\* loadQuiz: updateQuizProgress(quizId, { status: 'in_progress' })
LoadQuizUpdate(s) ==
  /\ session[s].pc = "update"
  /\ quizzes' = <<updateQuizProgress(quizzes[1], [status |-> "in_progress"])>>
  /\ session' = [session EXCEPT ![s].pc = "idle"]
  /\ UNCHANGED <<parseVars, evalVars, quizConfig, selectedFiles, validation,
                 genPc, genError, quiz_questions>>

\* loadQuiz: the update fails; its result is not looked at
LoadQuizUpdateFails(s) ==
  /\ session[s].pc = "update"
  /\ session' = [session EXCEPT ![s].pc = "idle"]
  /\ UNCHANGED <<parseVars, evalVars, quizConfig, selectedFiles, validation,
                 genPc, genError, quizzes, quiz_questions>>

\* handleQuestionNavigation(index)
HandleQuestionNavigation(s) ==
  /\ PageReady(s)
  /\ \E index \in 0..(Len(session[s].quiz[1].questions) - 1) :
       /\ index # session[s].currentQuestionIndex
       /\ session' = [session EXCEPT ![s].currentQuestionIndex = index]
  /\ UNCHANGED <<parseVars, evalVars, quizConfig, selectedFiles, validation,
                 genPc, genError, quizzes, quiz_questions>>

\* handleSubmitAnswer up to the result of evaluateAnswer, on an answer that
\* is not blank
HandleSubmitAnswerEvaluate(s) ==
  /\ PageReady(s)
  /\ Cardinality(quiz_answers) < MaxAnswers
  /\ \E answer \in TakeAnswers, reply \in TakeCompletions :
       LET q == currentQuestion(s)
           data == [id |-> q.id, correctAnswer |-> q.correct_answer,
                    correctOptionNumber |-> q.correct_option_number]
           ev == evaluateAnswer(q.question_type, answer, data, apiKey, reply)
       IN /\ trim(answer) # <<>>
          /\ session' = [session EXCEPT ![s].pending = <<answerRow(data, answer, ev)>>,
                                        ![s].pc = "save"]
  /\ UNCHANGED <<parseVars, evalVars, quizConfig, selectedFiles, validation,
                 genPc, genError, quizzes, quiz_questions>>

\* handleSubmitAnswer: saveAnswer inserts the row; the question is marked
\* answered and the page moves to the next question
HandleSubmitAnswerSave(s) ==
  /\ session[s].pc = "save"
  /\ quiz_answers' = insertAnswer(quiz_answers, QuizId, session[s].pending[1])
  /\ session' =
       [session EXCEPT
          ![s].answeredQuestions = @ \cup {session[s].pending[1].question_id},
          ![s].currentQuestionIndex = IF isLastQuestion(s) THEN @ ELSE @ + 1,
          ![s].pending = <<>>,
          ![s].pc = "idle"]
  /\ UNCHANGED <<parseVars, apiKey, question, userAnswer, completion, evalPc,
                 evaluation, fetches, quizConfig, selectedFiles, validation,
                 genPc, genError, quizzes, quiz_questions>>

\* handleSubmitAnswer: the insert is refused and the error is shown
HandleSubmitAnswerSaveFails(s) ==
  /\ session[s].pc = "save"
  /\ session' = [session EXCEPT ![s].pending = <<>>, ![s].pc = "idle"]
  /\ UNCHANGED <<parseVars, evalVars, quizConfig, selectedFiles, validation,
                 genPc, genError, quizzes, quiz_questions>>

\* handleSubmitTest, offered on the last question once it is answered: the
\* marks of the saved answers are read from the store and summed
HandleSubmitTestFetch(s) ==
  /\ PageReady(s)
  /\ isLastQuestion(s)
  /\ currentQuestion(s).id \in session[s].answeredQuestions
  /\ session' =
       [session EXCEPT
          ![s].totalMarksObtained = sumMarks(answersOf(quiz_answers, QuizId)),
          ![s].pc = "complete"]
  /\ UNCHANGED <<parseVars, evalVars, quizConfig, selectedFiles, validation,
                 genPc, genError, quizzes, quiz_questions>>

\* handleSubmitTest: the read fails and the error is shown
HandleSubmitTestFetchFails(s) ==
  /\ PageReady(s)
  /\ isLastQuestion(s)
  /\ currentQuestion(s).id \in session[s].answeredQuestions
  /\ session' = [session EXCEPT ![s].pc = "fetchFailed"]
  /\ UNCHANGED <<parseVars, evalVars, quizConfig, selectedFiles, validation,
                 genPc, genError, quizzes, quiz_questions>>

\* the error of a failed read is on the page, which stays usable
ShowFetchError(s) ==
  /\ session[s].pc = "fetchFailed"
  /\ session' = [session EXCEPT ![s].pc = "idle"]
  /\ UNCHANGED <<parseVars, evalVars, quizConfig, selectedFiles, validation,
                 genPc, genError, quizzes, quiz_questions>>

\* handleSubmitTest: updateQuizProgress stores the completion, then the
\* page navigates to the results
HandleSubmitTestUpdate(s) ==
  /\ session[s].pc = "complete"
  /\ quizzes' =
       <<updateQuizProgress(
           quizzes[1],
           [status |-> "completed",
            marks_obtained |-> session[s].totalMarksObtained,
            percentage |-> percentageOf(session[s].totalMarksObtained,
                                        session[s].quiz[1].total_marks)])>>
  /\ session' = [session EXCEPT ![s].totalMarksObtained = 0, ![s].pc = "results"]
  /\ UNCHANGED <<parseVars, evalVars, quizConfig, selectedFiles, validation,
                 genPc, genError, quiz_questions>>

\* handleSubmitTest: the update fails; its result is not looked at and the
\* page navigates to the results all the same
HandleSubmitTestUpdateFails(s) ==
  /\ session[s].pc = "complete"
  /\ session' = [session EXCEPT ![s].totalMarksObtained = 0, ![s].pc = "results"]
  /\ UNCHANGED <<parseVars, evalVars, quizConfig, selectedFiles, validation,
                 genPc, genError, quizzes, quiz_questions>>

Init ==
  /\ ParseIdle
  /\ apiKey \in BOOLEAN
  /\ question = [id |-> "q1", type |-> "mcq", correctAnswer |-> MaParis,
                 correctOptionNumber |-> Num(2)]
  /\ userAnswer = <<>>
  /\ completion = [kind |-> "network", content |-> <<>>]
  /\ evalPc = "idle"
  /\ evaluation = NoEvaluation
  /\ fetches = 0
  /\ quiz_answers = {}
  /\ quizConfig \in LifeConfigs
  /\ selectedFiles \in {0, 1}
  /\ validation = NoValidation
  /\ genPc = "validate"
  /\ genError = ""
  /\ quizzes = <<>>
  /\ quiz_questions = <<>>
  /\ session = [s \in Sessions |-> ClosedSession]

Next ==
  \/ ValidateConfig
  \/ GenerateQuestions
  \/ CreateQuizInsertQuiz
  \/ CreateQuizInsertQuizFails
  \/ CreateQuizInsertQuestions
  \/ CreateQuizInsertQuestionsFails
  \/ \E s \in Sessions : OpenQuiz(s)
  \/ \E s \in Sessions : LoadQuizGetQuiz(s)
  \/ \E s \in Sessions : LoadQuizGetQuizFails(s)
  \/ \E s \in Sessions : LoadQuizGetAnswered(s)
  \/ \E s \in Sessions : LoadQuizUpdate(s)
  \/ \E s \in Sessions : LoadQuizUpdateFails(s)
  \/ \E s \in Sessions : HandleQuestionNavigation(s)
  \/ \E s \in Sessions : HandleSubmitAnswerEvaluate(s)
  \/ \E s \in Sessions : HandleSubmitAnswerSave(s)
  \/ \E s \in Sessions : HandleSubmitAnswerSaveFails(s)
  \/ \E s \in Sessions : HandleSubmitTestFetch(s)
  \/ \E s \in Sessions : HandleSubmitTestFetchFails(s)
  \/ \E s \in Sessions : ShowFetchError(s)
  \/ \E s \in Sessions : HandleSubmitTestUpdate(s)
  \/ \E s \in Sessions : HandleSubmitTestUpdateFails(s)

Spec == Init /\ [][Next]_vars

----------------------------------------------------------------------------
(* Requests in flight: a generation and an answer submission with the reply
   of the completion service as a step of its own, which may never come *)

\* a request was sent and fetch has not settled
Pending == [kind |-> "pending", content |-> <<>>]

\* the question of the submission: a row of quiz_questions
LiveQuestions ==
  {q \in Questions : q.type \in DbTypes /\ q.correctAnswer = MaParis}

\* what may come back for the request of the generation: a failure, a text
\* without a question, a text with one question
LiveGenCompletions ==
  {[kind |-> k, content |-> <<>>] : k \in {"network", "status", "errorbody", "nochoices"}}
  \cup {[kind |-> "ok", content |-> t] : t \in {GenNone, GenLaq}}

InitLive ==
  /\ ParseIdle
  /\ apiKey \in BOOLEAN
  /\ question \in LiveQuestions
  /\ userAnswer \in TakeAnswers
  /\ completion = NoRequest
  /\ evalPc = "call"
  /\ evaluation = NoEvaluation
  /\ fetches = 0
  /\ quiz_answers = {}
  /\ quizConfig = EasyConfig
  /\ selectedFiles = 1
  /\ validation = [valid |-> TRUE, error |-> ""]
  /\ genPc = "generate"
  /\ genError = ""
  /\ quizzes = <<>>
  /\ quiz_questions = <<>>
  /\ session = [s \in Sessions |-> ClosedSession]

\* handleGenerateQuiz: setIsGenerating(true), then generateQuiz up to the
\* await of fetch in callLLM; without text or without key it fails at once
HandleGenerateQuizStart ==
  /\ genPc = "generate"
  /\ \E hasContext \in BOOLEAN :
       IF hasContext /\ apiKey
       THEN /\ completion' = Pending
            /\ fetches' = fetches + callLLMFetches(apiKey)
            /\ genPc' = "awaitCompletion"
            /\ UNCHANGED genError
       ELSE /\ completion' = NoRequest
            /\ genError' = IF hasContext THEN callLLM(apiKey, NoRequest).error
                           ELSE "No text content found in selected files."
            /\ genPc' = "failed"
            /\ UNCHANGED fetches
  /\ UNCHANGED <<parseVars, apiKey, question, userAnswer, evalPc, evaluation,
                 quiz_answers, quizConfig, selectedFiles, validation, quizzes,
                 quiz_questions, session>>

\* the completion service settles the request of the generation
CompletionServiceReplies ==
  /\ genPc = "awaitCompletion"
  /\ completion = Pending
  /\ \E call \in LiveGenCompletions : completion' = call
  /\ UNCHANGED <<parseVars, lifeVars, apiKey, question, userAnswer, evalPc,
                 evaluation, fetches, quiz_answers>>

\* callLLM resumes after the await of fetch; generateQuiz parses the reply
HandleGenerateQuizResume ==
  /\ genPc = "awaitCompletion"
  /\ completion # Pending
  /\ \E r \in {generateQuiz(TRUE, apiKey, completion, quizConfig)} :
       /\ validQuestions' = r.questions
       /\ genError' = r.error
       /\ genPc' = IF r.success THEN "insertQuiz" ELSE "failed"
  /\ llmResponse' = completion.content
  /\ parsePc' = "done"
  /\ UNCHANGED <<config, evalVars, quizConfig, selectedFiles, validation,
                 quizzes, quiz_questions, session>>

\* handleSubmitAnswer once the generation page is at rest:
\* setIsSubmitting(true), then evaluateAnswer up to the await of fetch in
\* calculateSimilarityWithLLM; an MCQ and a missing key need no request
HandleSubmitAnswerStart ==
  /\ genPc \in {"done", "failed"}
  /\ evalPc = "call"
  /\ IF question.type \in {"saq", "laq"} /\ apiKey
     THEN /\ completion' = Pending
          /\ fetches' = fetches + fetchCount(apiKey)
          /\ evalPc' = "awaitCompletion"
          /\ UNCHANGED evaluation
     ELSE /\ evaluation' =
               evaluateAnswer(question.type, userAnswer, question, apiKey, NoRequest)
          /\ evalPc' = "evaluated"
          /\ UNCHANGED <<completion, fetches>>
  /\ UNCHANGED <<parseVars, lifeVars, apiKey, question, userAnswer, quiz_answers>>

\* the completion service settles the request of the submission
JudgmentServiceReplies ==
  /\ evalPc = "awaitCompletion"
  /\ completion = Pending
  /\ \E call \in Completions : completion' = call
  /\ UNCHANGED <<parseVars, lifeVars, apiKey, question, userAnswer, evalPc,
                 evaluation, fetches, quiz_answers>>

\* calculateSimilarityWithLLM resumes after the await of fetch
HandleSubmitAnswerResume ==
  /\ evalPc = "awaitCompletion"
  /\ completion # Pending
  /\ evaluation' =
       evaluateAnswer(question.type, userAnswer, question, apiKey, completion)
  /\ evalPc' = "evaluated"
  /\ UNCHANGED <<parseVars, lifeVars, apiKey, question, userAnswer, completion,
                 fetches, quiz_answers>>

\* the steps of handleGenerateQuiz the event loop and the store carry out
GenerationSteps ==
  \/ HandleGenerateQuizStart
  \/ HandleGenerateQuizResume
  \/ CreateQuizInsertQuiz
  \/ CreateQuizInsertQuizFails
  \/ CreateQuizInsertQuestions
  \/ CreateQuizInsertQuestionsFails

\* the steps of handleSubmitAnswer the event loop and the store carry out
SubmissionSteps ==
  \/ HandleSubmitAnswerStart
  \/ HandleSubmitAnswerResume
  \/ SaveAnswer
  \/ SaveAnswerFails

NextLive ==
  \/ HandleGenerateQuizStart
  \/ CompletionServiceReplies
  \/ HandleGenerateQuizResume
  \/ CreateQuizInsertQuiz
  \/ CreateQuizInsertQuizFails
  \/ CreateQuizInsertQuestions
  \/ CreateQuizInsertQuestionsFails
  \/ HandleSubmitAnswerStart
  \/ JudgmentServiceReplies
  \/ HandleSubmitAnswerResume
  \/ SaveAnswer
  \/ SaveAnswerFails

\* a continuation that can run is run, and the store answers; nothing makes
\* the completion service reply
SpecLive ==
  /\ InitLive
  /\ [][NextLive]_vars
  /\ WF_vars(GenerationSteps)
  /\ WF_vars(SubmissionSteps)

----------------------------------------------------------------------------
(* Properties of parseQuizResponse, checked under SpecParse *)

\* number of questions of a type in an array of questions
countType(qs, t) == Cardinality({i \in 1..Len(qs) : qs[i].type = t})

\* number of lines of a text that start with a marker once trimmed
countMarker(text, m) ==
  Cardinality({i \in 1..Len(text) : startsWith(trim(text[i]), m)})

ThreeMcqText == BlkMcq \o BlkMcq \o BlkMcq

\* C1: the array parseQuizResponse returns never holds more questions of a
\* type than the configuration asks for; a marker line over the cap opens
\* nothing and fails nothing: three MCQ blocks with totalMcqs = 2 give
\* exactly two MCQ questions.
C1_CapsRespected ==
  parsePc = "done" =>
    /\ countType(validQuestions, "mcq") <= config.totalMcqs
    /\ countType(validQuestions, "saq") <= config.totalSaqs
    /\ countType(validQuestions, "laq") <= config.totalLaqs
    /\ (llmResponse = ThreeMcqText /\ config.totalMcqs = 2
          => countType(validQuestions, "mcq") = 2)

C1_Witness ==
  /\ parsePc = "done"
  /\ llmResponse = ThreeMcqText
  /\ config.totalMcqs = 2
  /\ countMarker(llmResponse, "MCQ:") = 3
  /\ Len(validQuestions) = 2

\* the text is a concatenation of blocks of the generation grammar
RECURSIVE FollowsGrammar(_)
FollowsGrammar(text) ==
  \/ text = <<>>
  \/ \E b \in GrammarBlocks :
       /\ Len(b) <= Len(text)
       /\ SubSeq(text, 1, Len(b)) = b
       /\ FollowsGrammar(SubSeq(text, Len(b) + 1, Len(text)))

\* C2: a text that follows the generation grammar, with m MCQ, s SAQ and
\* l LAQ blocks, none above its cap, is parsed into exactly m + s + l
\* questions, m, s and l of each type.
C2_GrammarTextParsedInFull ==
  (/\ parsePc = "done"
   /\ FollowsGrammar(llmResponse)
   /\ countMarker(llmResponse, "MCQ:") <= config.totalMcqs
   /\ countMarker(llmResponse, "SAQ:") <= config.totalSaqs
   /\ countMarker(llmResponse, "LAQ:") <= config.totalLaqs)
  => /\ Len(validQuestions) = countMarker(llmResponse, "MCQ:")
                               + countMarker(llmResponse, "SAQ:")
                               + countMarker(llmResponse, "LAQ:")
     /\ countType(validQuestions, "mcq") = countMarker(llmResponse, "MCQ:")
     /\ countType(validQuestions, "saq") = countMarker(llmResponse, "SAQ:")
     /\ countType(validQuestions, "laq") = countMarker(llmResponse, "LAQ:")

\* C3: the text "MCQ: 2+2? / Options: 1) 3 2) 4 3) 5 4) 6 / Answer: 2 /
\* Explanation: basic addition" with totalMcqs = 1 gives exactly one
\* question, with four options keyed 1..4, correctOptionNumber 2 and
\* correctAnswer "4".
C3_DigitOptionsParsed ==
  (parsePc = "done" /\ llmResponse = BlkMcqSum /\ config.totalMcqs = 1)
  => /\ Len(validQuestions) = 1
     /\ DOMAIN validQuestions[1].options = {<<"1">>, <<"2">>, <<"3">>, <<"4">>}
     /\ validQuestions[1].correctOptionNumber = Num(2)
     /\ validQuestions[1].correctAnswer = <<"4">>

\* String(n) for n >= 0
RECURSIVE intToDigits(_)
intToDigits(n) ==
  LET d == CHOOSE c \in Digits : DigitVal(c) = n % 10
  IN IF n < 10 THEN <<d>> ELSE Append(intToDigits(n \div 10), d)

\* C4: every MCQ question returned has exactly the option keys "1".."4", a
\* correctOptionNumber that is not null, and a correctAnswer equal to the
\* option text at correctOptionNumber.
C4_McqWellFormed ==
  parsePc = "done" =>
    \A i \in 1..Len(validQuestions) :
      LET q == validQuestions[i]
      IN q.type = "mcq" =>
           /\ DOMAIN q.options = {<<"1">>, <<"2">>, <<"3">>, <<"4">>}
           /\ q.correctOptionNumber.kind = "num"
           /\ intToDigits(q.correctOptionNumber.val) \in DOMAIN q.options
           /\ q.correctAnswer = q.options[intToDigits(q.correctOptionNumber.val)]

\* C5: every question returned carries 1 mark if it is an MCQ, 3 if an SAQ
\* and 5 if an LAQ, whatever the text and the configuration.
C5_MarksFixedByType ==
  parsePc = "done" =>
    \A i \in 1..Len(validQuestions) :
      LET q == validQuestions[i]
      IN /\ q.type = "mcq" => q.marks = 1
         /\ q.type = "saq" => q.marks = 3
         /\ q.type = "laq" => q.marks = 5

C5_Witness ==
  /\ parsePc = "done"
  /\ countType(validQuestions, "mcq") = 1
  /\ countType(validQuestions, "saq") = 1
  /\ countType(validQuestions, "laq") = 1
  /\ \E i \in 1..Len(llmResponse) : startsWith(llmResponse[i], "Answer:")

\* C20: the questionNumber values of the questions parseQuizResponse
\* returns are 1, 2, ..., n in list order, for every text, also when an
\* opened question is dropped by the validity filter.
C20_NumbersSequential ==
  parsePc = "done" =>
    \A i \in 1..Len(validQuestions) : validQuestions[i].questionNumber = i

----------------------------------------------------------------------------
(* Properties of the evaluator, checked under SpecEval *)

\* evaluateAnswer has returned
Evaluated == evalPc \in {"evaluated", "saved", "failed", "batch"}

\* the verdict comes from the lexical fallback: the completion call failed
UsedFallback ==
  /\ question.type \in {"saq", "laq"}
  /\ (~apiKey \/ completion.kind # "ok")

\* a reply arrived from the completion service
GotReply ==
  /\ question.type \in {"saq", "laq"}
  /\ apiKey
  /\ completion.kind = "ok"

\* the reply has a line starting with a prefix
ReplyHasLine(prefix) ==
  \E i \in 1..Len(completion.content) :
    startsWith(trim(completion.content[i]), prefix)

\* the reply has a score line that carries a number
ReplyHasScore ==
  \E i \in 1..Len(completion.content) :
    LET line == trim(completion.content[i])
    IN startsWith(line, "Similarity Score:") /\ scoreMatch(line) # <<>>

\* C6: evaluateMCQ is correct exactly when the integer parsed from the
\* answer equals correctOptionNumber, awards 1 mark when correct and 0
\* otherwise, and sends nothing to the completion service.
C6_McqExactMatch ==
  (Evaluated /\ question.type = "mcq") =>
    /\ evaluation.isCorrect <=>
         /\ parseInt(userAnswer).kind = "num"
         /\ question.correctOptionNumber.kind = "num"
         /\ parseInt(userAnswer).val = question.correctOptionNumber.val
    /\ evaluation.isCorrect => evaluation.marksObtained = 1
    /\ ~evaluation.isCorrect => evaluation.marksObtained = 0
    /\ fetches = 0

C6_Witness ==
  /\ evalPc = "evaluated"
  /\ question.type = "mcq"
  /\ userAnswer = UaSecond
  /\ evaluation.isCorrect
  /\ evaluation.marksObtained = 1

\* C7: every result of evaluateAnswer awards the marks of the question
\* type (1, 3, 5) when correct and 0 otherwise, and every row saveAnswer
\* inserts carries the verdict and the marks of that result.
C7_MarksFollowVerdict ==
  Evaluated =>
    /\ evaluation.marksObtained =
         IF ~evaluation.isCorrect THEN 0
         ELSE IF question.type = "mcq" THEN 1
         ELSE IF question.type = "saq" THEN 3
         ELSE 5
    /\ evaluation.isCorrect => question.type \in DbTypes
    /\ \A row \in quiz_answers :
         /\ row.question_id = question.id
         /\ row.is_correct = evaluation.isCorrect
         /\ row.marks_obtained = evaluation.marksObtained

C7_Witness ==
  /\ evalPc = "saved"
  /\ question.type = "laq"
  /\ UsedFallback
  /\ \E row \in quiz_answers : row.is_correct /\ row.marks_obtained = 5

\* C8: a verdict derived from a score (the lexical fallback, or a reply
\* with a score and no verdict line) is correct exactly when the score is
\* at least 90 for an SAQ and 75 for an LAQ; a score equal to the
\* threshold is correct.
C8_ThresholdInclusive ==
  (Evaluated /\ (UsedFallback \/ (GotReply /\ ReplyHasScore /\ ~ReplyHasLine("Is Correct:"))))
  => LET score == evaluation.similarityScore
     IN /\ question.type = "saq" =>
             (evaluation.isCorrect <=> (score.kind = "num" /\ score.val >= 90))
        /\ question.type = "laq" =>
             (evaluation.isCorrect <=> (score.kind = "num" /\ score.val >= 75))

C8_Witness ==
  /\ evalPc = "evaluated"
  /\ UsedFallback
  /\ question.type = "saq"
  /\ evaluation.similarityScore = Num(90)
  /\ evaluation.isCorrect

\* the words of an answer the lexical fallback counts
countedWords(answer) == longWords(splitWords(answer, <<>>))

\* C9: the lexical fallback returns an integer score from 0 to 100 for
\* every pair of answers, and 0 when neither answer has a word to count.
C9_FallbackScoreInRange ==
  (Evaluated /\ UsedFallback) =>
    /\ evaluation.similarityScore.kind = "num"
    /\ evaluation.similarityScore.val \in 0..100
    /\ (countedWords(userAnswer) = <<>> /\ countedWords(question.correctAnswer) = <<>>
          => evaluation.similarityScore = Num(0))

\* C10: a reply with neither a score line nor a verdict line gives the
\* result of the lexical fallback on the two answers.
C10_MalformedReplyFallsBack ==
  (/\ Evaluated
   /\ GotReply
   /\ ~ReplyHasLine("Similarity Score:")
   /\ ~ReplyHasLine("Is Correct:"))
  => LET threshold == IF question.type = "saq" THEN 90 ELSE 75
         fallback == calculateBasicSimilarity(userAnswer, question.correctAnswer, threshold)
     IN /\ evaluation.isCorrect = fallback.isCorrect
        /\ evaluation.similarityScore = fallback.similarityScore

\* the completion call of an SAQ or LAQ failed: no key, the request failed,
\* or the reply has neither a score line nor a verdict line
CompletionFailed ==
  \/ UsedFallback
  \/ /\ GotReply
     /\ ~ReplyHasLine("Similarity Score:")
     /\ ~ReplyHasLine("Is Correct:")

\* the verdict of the lexical fallback on the submitted answer
fallbackVerdict ==
  LET threshold == IF question.type = "saq" THEN 90 ELSE 75
      marks == IF question.type = "saq" THEN 3 ELSE 5
      r == calculateBasicSimilarity(userAnswer, question.correctAnswer, threshold)
  IN [isCorrect |-> r.isCorrect,
      marksObtained |-> IF r.isCorrect THEN marks ELSE 0,
      similarityScore |-> r.similarityScore]

\* C11: evaluateAnswer returns a result with isCorrect, marksObtained and
\* similarityScore for every question type and every outcome of the
\* completion call, and for an SAQ or LAQ whose completion call failed
\* (missing key, network error, non-OK status, error body, malformed reply)
\* the result is exactly the verdict of the lexical fallback.
C11_FailureYieldsFallback ==
  Evaluated =>
    /\ evaluation.isCorrect \in BOOLEAN
    /\ evaluation.marksObtained \in {0, 1, 3, 5}
    /\ evaluation.similarityScore.kind \in {"num", "NaN"}
    /\ CompletionFailed => evaluation = fallbackVerdict

\* the same for the failures of the request alone
C11_RequestFailureYieldsFallback ==
  (Evaluated /\ UsedFallback) => evaluation = fallbackVerdict

----------------------------------------------------------------------------
(* Properties of the quiz configuration, checked under SpecValidate *)

\* validateConfig has run
Validated == genPc \in {"rejected", "generate"}

\* the name is not blank and the difficulty is one of the three levels
NameAndDifficultyGiven ==
  /\ trim(quizConfig.quizName) # <<>>
  /\ quizConfig.difficulty \in {"easy", "medium", "hard"}

\* C18: with a non-empty name and a difficulty in {easy, medium, hard},
\* validateQuizConfig accepts a configuration exactly when every count is
\* at least 0 and the three counts total between 1 and 30; a configuration
\* with one or two counts of 0 and a positive total is accepted.
C18_AcceptsIffCountsInRange ==
  (Validated /\ NameAndDifficultyGiven) =>
    (validation.valid <=>
       /\ quizConfig.totalMcqs >= 0
       /\ quizConfig.totalSaqs >= 0
       /\ quizConfig.totalLaqs >= 0
       /\ quizConfig.totalMcqs + quizConfig.totalSaqs + quizConfig.totalLaqs \in 1..30)

\* what the code accepts: every count from 1 to 20 and a total of at most 30
C18_AcceptsIffEachCountPositive ==
  (Validated /\ NameAndDifficultyGiven) =>
    (validation.valid <=>
       /\ quizConfig.totalMcqs \in 1..20
       /\ quizConfig.totalSaqs \in 1..20
       /\ quizConfig.totalLaqs \in 1..20
       /\ quizConfig.totalMcqs + quizConfig.totalSaqs + quizConfig.totalLaqs <= 30)

----------------------------------------------------------------------------
(* Properties of the stored quiz, checked under Spec *)

\* the place of a status on generating -> ready -> in_progress -> completed
statusRank(status) ==
  CASE status = "generating" -> 0
    [] status = "ready" -> 1
    [] status = "in_progress" -> 2
    [] status = "completed" -> 3

\* the quiz row is stored, before and after the step
QuizStored == quizzes # <<>> /\ quizzes' # <<>>

\* C12: the stored status of a quiz only moves forward along generating ->
\* ready -> in_progress -> completed, under every interleaving of createQuiz,
\* loadQuiz and handleSubmitTest of one or more sessions: no step takes it
\* from completed back to in_progress or ready, or from in_progress to ready.
C12_StatusOnlyForward ==
  [][QuizStored =>
       statusRank(quizzes'[1].status) >= statusRank(quizzes[1].status)]_vars

\* C13: a completion attempt on a quiz whose stored status is generating or
\* ready is rejected and leaves the status unchanged, also when the update
\* of loadQuiz from ready to in_progress failed.
C13_CompletionOnlyFromInProgress ==
  [][(QuizStored /\ quizzes[1].status \in {"generating", "ready"}) =>
       quizzes'[1].status # "completed"]_vars

\* C14: once the quiz is completed, no step of loadQuiz, handleSubmitAnswer
\* or handleSubmitTest changes its stored marks_obtained, its percentage or
\* the set of its answer rows.
C14_CompletedIsFrozen ==
  [][(QuizStored /\ quizzes[1].status = "completed") =>
       /\ quizzes'[1].marks_obtained = quizzes[1].marks_obtained
       /\ quizzes'[1].percentage = quizzes[1].percentage
       /\ answersOf(quiz_answers', QuizId) = answersOf(quiz_answers, QuizId)]_vars

\* C15: the store holds at most one answer row for a pair of quiz_id and
\* question_id, after any sequence or interleaving of handleSubmitAnswer.
C15_OneAnswerPerQuestion ==
  \A r1, r2 \in quiz_answers :
    (r1.quiz_id = r2.quiz_id /\ r1.question_id = r2.question_id) => r1 = r2

\* the sum of the marks of question rows
RECURSIVE sumQuestionMarks(_)
sumQuestionMarks(rows) ==
  IF rows = <<>> THEN 0 ELSE Head(rows).marks + sumQuestionMarks(Tail(rows))

\* C16: the total_marks of a persisted quiz is the sum of the marks of the
\* questions persisted for it, also when the parser returned fewer valid
\* questions than the configuration asked for.
C16_TotalMarksIsSumOfQuestions ==
  genPc = "done" => quizzes[1].total_marks = sumQuestionMarks(quiz_questions)

\* C17: handleSubmitTest reads the answer rows of the quiz from the store
\* and, on completion, stores marks_obtained equal to the sum of their
\* marks_obtained and percentage = round(100 * marks_obtained / total_marks).
C17_CompletionStoresSumFromStore ==
  [][\A s \in Sessions :
       /\ (session[s].pc = "idle" /\ session'[s].pc = "complete") =>
            session'[s].totalMarksObtained =
              sumMarks({r \in quiz_answers : r.quiz_id = QuizId})
       /\ (/\ session[s].pc = "complete"
           /\ session'[s].pc = "results"
           /\ quizzes' # quizzes) =>
            /\ quizzes'[1].status = "completed"
            /\ quizzes'[1].marks_obtained = session[s].totalMarksObtained
            /\ quizzes'[1].percentage =
                 (200 * quizzes'[1].marks_obtained + quizzes[1].total_marks)
                   \div (2 * quizzes[1].total_marks)]_vars

\* the quiz is stored as completed with the marks of two correct SAQ rows,
\* 6 of 9, and the percentage 67
C17_Witness ==
  /\ quizzes # <<>>
  /\ quizzes[1].status = "completed"
  /\ quizzes[1].total_marks = 9
  /\ quizzes[1].marks_obtained = 6
  /\ quizzes[1].percentage = 67
  /\ sumMarks(answersOf(quiz_answers, QuizId)) = 6
  /\ \E s \in Sessions : session[s].pc = "results"

\* the completion call of the generation was made and failed
GenerationCallFailed ==
  /\ genPc \in {"failed", "insertQuiz", "insertQuestions", "done"}
  /\ completion # NoRequest
  /\ (~apiKey \/ completion.kind # "ok")

\* C19: when the completion call of a generation fails (missing key,
\* network error, non-OK status, error body), generateQuiz returns
\* success=false with the error, handleGenerateQuiz shows it, and no quiz
\* row and no question row is persisted.
C19_FailedCallPersistsNothing ==
  GenerationCallFailed =>
    /\ genPc = "failed"
    /\ genError = callLLM(apiKey, completion).error
    /\ genError \in CompletionErrors
    /\ validQuestions = <<>>
    /\ quizzes = <<>>
    /\ quiz_questions = <<>>

C19_Witness ==
  /\ genPc = "failed"
  /\ apiKey
  /\ completion.kind = "status"
  /\ genError = "API request failed"
  /\ quizzes = <<>>
  /\ quiz_questions = <<>>

----------------------------------------------------------------------------
(* Further properties of the evaluator, checked under SpecEval *)

\* the verdicts the reply states on its 'Is Correct:' lines
replyVerdicts ==
  {correctMatch(trim(completion.content[i])) :
     i \in {j \in 1..Len(completion.content) :
              startsWith(trim(completion.content[j]), "Is Correct:")}} \ {""}

\* C21: the verdict of a judgment reply is the one of its explicit
\* 'Is Correct: YES|NO' line when there is one, and score >= threshold only
\* when a score is found and no verdict line is present; 'Is Correct: NO'
\* gives isCorrect = false also when the score reaches the threshold.
C21_ExplicitVerdictWins ==
  (Evaluated /\ GotReply) =>
    /\ \A v \in replyVerdicts : evaluation.isCorrect = (v = "YES")
    /\ (replyVerdicts = {} /\ ReplyHasScore) =>
         (evaluation.isCorrect <=>
            evaluation.similarityScore.val >=
              (IF question.type = "saq" THEN 90 ELSE 75))

\* the indices of the counted user words that occur among the reference's
matchingWords(U, R) ==
  {i \in 1..Len(U) : \E j \in 1..Len(R) : R[j] = U[i]}

\* C22: the lexical fallback scores round(100 * c / max(|U|, |R|)), U and R
\* the lowercased whitespace-split tokens longer than 2 of the two answers
\* and c the tokens of U (with repetition) that occur in R, and is correct
\* iff the score reaches the threshold; the photosynthesis example scores 57
\* and is incorrect at threshold 90.  With no token on either side the
\* quotient is 0/0 and the rounded score is not a number.
C22_FallbackIsWordOverlap ==
  (Evaluated /\ UsedFallback) =>
    LET U == countedWords(userAnswer)
        R == countedWords(question.correctAnswer)
        c == Cardinality(matchingWords(U, R))
        m == IF Len(U) >= Len(R) THEN Len(U) ELSE Len(R)
        threshold == IF question.type = "saq" THEN 90 ELSE 75
        score == evaluation.similarityScore
    IN /\ m = 0 => (score = NaN /\ ~evaluation.isCorrect)
       /\ m > 0 =>
            /\ score.kind = "num"
            /\ 2 * m * score.val - m <= 200 * c
            /\ 200 * c < 2 * m * score.val + m
            /\ evaluation.isCorrect <=> (score.val >= threshold)
       /\ (userAnswer = UaPhoto /\ question.correctAnswer = MaPhoto) =>
            /\ score = Num(57)
            /\ question.type = "saq" => ~evaluation.isCorrect

\* the photosynthesis example went through the lexical fallback of an SAQ
C22_Witness ==
  /\ Evaluated /\ UsedFallback
  /\ question.type = "saq"
  /\ userAnswer = UaPhoto /\ question.correctAnswer = MaPhoto
  /\ evaluation.similarityScore = Num(57)
  /\ ~evaluation.isCorrect

\* C23: every result of evaluateAnswer carries a similarityScore that is an
\* integer from 0 to 100, whatever the question type, the two answers and
\* the reply text of the completion service (a score line above 100
\* included).
C23_ScoreAlwaysInRange ==
  Evaluated =>
    /\ evaluation.similarityScore.kind = "num"
    /\ evaluation.similarityScore.val \in 0..100

----------------------------------------------------------------------------
(* The frame of a question block, checked under SpecParse *)

\* the question type a line's marker names, "" for a line without marker
markerOf(line) ==
  IF startsWith(line, "MCQ:") THEN "mcq"
  ELSE IF startsWith(line, "SAQ:") THEN "saq"
  ELSE IF startsWith(line, "LAQ:") THEN "laq"
  ELSE ""

capOf(cfg, type) ==
  CASE type = "mcq" -> cfg.totalMcqs
    [] type = "saq" -> cfg.totalSaqs
    [] type = "laq" -> cfg.totalLaqs

\* the marker lines that open a question: the first capOf of each type
openingLines(lines, cfg) ==
  {i \in 1..Len(lines) :
     /\ markerOf(lines[i]) # ""
     /\ Cardinality({j \in 1..(i - 1) : markerOf(lines[j]) = markerOf(lines[i])})
          < capOf(cfg, markerOf(lines[i]))}

\* the line that opened the question numbered n
openingLineOf(lines, cfg, n) ==
  CHOOSE i \in openingLines(lines, cfg) :
    Cardinality({j \in openingLines(lines, cfg) : j < i}) = n - 1

\* a marker line and the lines up to the next line starting with a marker
ownBlock(lines, i) ==
  LET later == {k \in (i + 1)..Len(lines) : markerOf(lines[k]) # ""}
      stop == IF later = {} THEN Len(lines) + 1
              ELSE CHOOSE k \in later : \A k2 \in later : k <= k2
  IN SubSeq(lines, i, stop - 1)

OneOfEach == [totalMcqs |-> 1, totalSaqs |-> 1, totalLaqs |-> 1]

\* C30: the options, correctAnswer, correctOptionNumber and explanation of
\* every returned question are those of the field lines between its own
\* marker line and the next line starting with 'MCQ:', 'SAQ:' or 'LAQ:':
\* they equal what the block parsed on its own gives, so the field lines of
\* a block over the cap leave the question opened before it unchanged.
C30_FieldsFromOwnBlock ==
  parsePc = "done" =>
    \A k \in 1..Len(validQuestions) :
      LET q == validQuestions[k]
          lines == splitLines(llmResponse)
          own == parseQuizResponse(
                   ownBlock(lines, openingLineOf(lines, config, q.questionNumber)),
                   OneOfEach)
      IN /\ Len(own) = 1
         /\ own[1].options = q.options
         /\ own[1].correctAnswer = q.correctAnswer
         /\ own[1].correctOptionNumber = q.correctOptionNumber
         /\ own[1].explanation = q.explanation

----------------------------------------------------------------------------
(* Further properties of generation and of taking the quiz, checked under
   Spec *)

\* C24: a quiz is stored with status ready or a later status only if a
\* non-empty list of questions is stored for it; when generation or the
\* insert of the questions fails, no quiz is visible as ready.
C24_ReadyOnlyWithQuestions ==
  \A i \in 1..Len(quizzes) :
    statusRank(quizzes[i].status) >= statusRank("ready") =>
      \E j \in 1..Len(quiz_questions) : quiz_questions[j].quiz_id = quizzes[i].id

\* handleGenerateQuiz has called generateQuiz and it returned
GenerationRan == parsePc = "done" /\ genPc # "validate" /\ genPc # "generate"

\* generateQuiz reached callLLM
CalledLLM == GenerationRan /\ completion # NoRequest

\* C25: callLLM sends exactly one request to the completion service per
\* invocation and returns {success: false, error} for a missing key, a
\* network error, a non-OK status, an error body and a body without
\* choices; generateQuiz calls callLLM exactly once per quiz.
C25_ExactlyOneRequest ==
  GenerationRan =>
    /\ completion # NoRequest
    /\ fetches = 1
    /\ (~apiKey \/ completion.kind # "ok") =>
         (genPc = "failed" /\ genError = callLLM(apiKey, completion).error
            /\ genError \in CompletionErrors)

\* C25 as the code has it: callLLM sends one request when the key is set
\* and none without a key, never a second one, and returns every failure
\* as {success: false, error}; generateQuiz calls callLLM once when the
\* selected documents have text and not at all when they have none.
C25_AtMostOneRequest ==
  GenerationRan =>
    /\ fetches = (IF CalledLLM /\ apiKey THEN 1 ELSE 0)
    /\ ~CalledLLM =>
         (genPc = "failed" /\ genError = "No text content found in selected files.")
    /\ (CalledLLM /\ (~apiKey \/ completion.kind # "ok")) =>
         (genPc = "failed" /\ genError = callLLM(apiKey, completion).error
            /\ genError \in CompletionErrors)

\* the one request of a generation was rejected by the network
C25_Witness ==
  /\ CalledLLM
  /\ apiKey
  /\ completion.kind = "network"
  /\ fetches = 1
  /\ genPc = "failed"
  /\ genError = "Failed to fetch"

\* the completion of the generation arrived with a text
GenerationGotReply == CalledLLM /\ apiKey /\ completion.kind = "ok"

requestedTotal(cfg) == cfg.totalMcqs + cfg.totalSaqs + cfg.totalLaqs

\* the fields generateQuiz returns besides success, questions and error
extraResultFields ==
  DOMAIN generateQuiz(TRUE, apiKey, completion, quizConfig)
    \ {"success", "questions", "error"}

\* C27: a parse shortfall is not fatal: with k valid questions, 1 <= k <
\* requested total, generateQuiz succeeds and the caller receives that
\* subset and a count mismatch indicator; generateQuiz fails only for k = 0.
C27_ShortfallIndicated ==
  GenerationGotReply =>
    LET k == Len(parseQuizResponse(completion.content, quizConfig))
    IN /\ (genError = "Failed to parse questions from LLM response.") <=> (k = 0)
       /\ k >= 1 =>
            /\ validQuestions = parseQuizResponse(completion.content, quizConfig)
            /\ genError \notin {"Failed to parse questions from LLM response.",
                                "No text content found in selected files."}
                 \cup CompletionErrors
       /\ (k >= 1 /\ k < requestedTotal(quizConfig)) => extraResultFields # {}

\* C28: every completed quiz has marks_obtained <= total_marks and a
\* percentage from 0 to 100, after any sequence of answer submissions
\* (repeated submissions for one question included) followed by
\* handleSubmitTest.
C28_CompletedMarksBounded ==
  \A i \in 1..Len(quizzes) :
    quizzes[i].status = "completed" =>
      /\ quizzes[i].marks_obtained <= quizzes[i].total_marks
      /\ quizzes[i].percentage >= 0
      /\ quizzes[i].percentage <= 100

\* C29: handleSubmitTest navigates to the results page only after the quiz
\* is stored as completed with its final marks_obtained and percentage; when
\* the store rejects the completing update the learner stays on the quiz
\* page.
C29_ResultsOnlyAfterStored ==
  [][\A s \in Sessions :
       (session[s].pc = "complete" /\ session'[s].pc = "results") =>
         /\ quizzes'[1].status = "completed"
         /\ quizzes'[1].marks_obtained = session[s].totalMarksObtained
         /\ quizzes'[1].percentage =
              percentageOf(session[s].totalMarksObtained,
                           session[s].quiz[1].total_marks)]_vars

----------------------------------------------------------------------------
(* Termination, checked under SpecLive *)

\* the 'generating' indicator is on: handleGenerateQuiz has not finished
Generating ==
  genPc \in {"generate", "awaitCompletion", "insertQuiz", "insertQuestions"}

\* the 'submitting' indicator is on: handleSubmitAnswer has not finished
Submitting == evalPc \in {"awaitCompletion", "evaluated"}

\* C26: every started generation attempt and every started answer
\* evaluation eventually finishes, also when the completion service never
\* replies: the 'generating' and 'submitting' indicators are always
\* eventually cleared.
C26_AttemptsFinish ==
  /\ Generating ~> ~Generating
  /\ Submitting ~> ~Submitting

====
